---- MODULE Spec2Model ----
(***************************************************************************)
(* Habit analytics engine of routine-buddy: the streak calculators, the    *)
(* consistency scorer and the rule-based success predictor of              *)
(* backend/app/services, over the habit_completions table.                 *)
(*                                                                         *)
(* Representation.  A timestamp is a pair (date, hour): date is a day      *)
(* number, hour the hour of that day.  A row of habit_completions is       *)
(* [habit_id, date, hour]; its user_id is the owner of the habit.  The     *)
(* table has no order of its own, so it is a bag of rows.  Python floats   *)
(* are modelled as exact rationals in fixed point: a completion rate is    *)
(* held in units of 1/300, a consistency score in units of 1/100, a        *)
(* probability in units of 1/60 percent (the least unit in which           *)
(* rate*100 + bonus + consistency*15 is an integer).                       *)
(***************************************************************************)
EXTENDS Integers, Sequences, FiniteSets, Bags, TLC

VARIABLES completions, today, result, habits_db, calls

vars == <<completions, today, result, habits_db, calls>>

(***************************************************************************)
(* Bounds of the model.                                                    *)
(***************************************************************************)
MaxCompletions == 3
MaxDay == 3
MaxAge == 1
MaxStreakInput == 11

(***************************************************************************)
(* Program constants.                                                      *)
(***************************************************************************)
PredictionWindowDays == 30
GraceDays == 1
StreakBonusCap == 20
ProbabilityCap == 95
HighThreshold == 80
MediumThreshold == 50

(***************************************************************************)
(* Generic helpers: Python's min, max, list(set(..)), sorted(..).          *)
(***************************************************************************)
Min2(a, b) == IF a <= b THEN a ELSE b

Max2(a, b) == IF a >= b THEN a ELSE b

SetMax(S) == CHOOSE m \in S : \A x \in S : m >= x

Range(s) == {s[i] : i \in DOMAIN s}

RECURSIVE SetToList(_)
SetToList(S) ==
    IF S = {} THEN <<>>
    ELSE LET x == CHOOSE y \in S : TRUE
         IN <<x>> \o SetToList(S \ {x})

RECURSIVE InsertAsc(_, _)
InsertAsc(x, s) ==
    IF s = <<>> THEN <<x>>
    ELSE IF x <= Head(s) THEN <<x>> \o s
    ELSE <<Head(s)>> \o InsertAsc(x, Tail(s))

RECURSIVE Sorted(_)
Sorted(s) == IF s = <<>> THEN <<>> ELSE InsertAsc(Head(s), Sorted(Tail(s)))

Reversed(s) == [i \in 1..Len(s) |-> s[Len(s) + 1 - i]]

(***************************************************************************)
(* The habits table (seed data) and the ids a caller may ask for.          *)
(***************************************************************************)
(***************************************************************************)
(* The in-memory habit store of backend/app/main.py (the same list and     *)
(* handlers are in simple_backend.py and minimal_backend.py): habits_db    *)
(* is the list itself, calls the requests served so far.  None for         *)
(* best_hour is NoBestHour.                                                *)
(***************************************************************************)
NoBestHour == -1

DemoHabits ==
    <<[id |-> "demo-1", title |-> "Drink Water", goal_type |-> "count",
       target_value |-> 8, current_streak_length |-> 5,
       is_due_today |-> TRUE, best_hour |-> 9],
      [id |-> "demo-2", title |-> "Exercise", goal_type |-> "duration",
       target_value |-> 30, current_streak_length |-> 3,
       is_due_today |-> FALSE, best_hour |-> 7]>>

Owner == [h1 |-> "u1", h2 |-> "u1"]

Title == [h1 |-> "Drink Water", h2 |-> "Exercise"]

Habits == {"h1", "h2"}

HabitIds == Habits \cup {"h3"}

UserIds == {"u1", "u2"}

\* Hours of the day at which a request may arrive, and the hour the
\* completions of these specifications are recorded at.
Hours == {6, 18}

CheckinHour == 12

WindowAges == {0, 1, PredictionWindowDays, PredictionWindowDays + 1}

StreakAges == 0..MaxAge

NoResult == [op |-> "none"]

(***************************************************************************)
(* Lists of rows.                                                          *)
(***************************************************************************)
RowList(b) ==
    LET n == BagCardinality(b)
        R == BagToSet(b)
    IN {s \in [1..n -> R] :
          \A r \in R : Cardinality({i \in 1..n : s[i] = r}) = CopiesIn(r, b)}

DatesOf(rows) == [i \in DOMAIN rows |-> rows[i].date]

(***************************************************************************)
(* SmartReminderService._calculate_streaks                                 *)
(***************************************************************************)
\* Variant: the most recent completion starts the streak however old it is.
RECURSIVE CurrentWalk_NoStaleCheck(_, _, _, _)
CurrentWalk_NoStaleCheck(unique_dates, i, now_date, current_streak) ==
    IF i < 1 THEN current_streak
    ELSE IF i = Len(unique_dates)
         THEN CurrentWalk_NoStaleCheck(unique_dates, i - 1, now_date, 1)
         ELSE IF unique_dates[i + 1] - unique_dates[i] = 1
              THEN CurrentWalk_NoStaleCheck(unique_dates, i - 1, now_date,
                                            current_streak + 1)
              ELSE current_streak

RECURSIVE CurrentWalk(_, _, _, _)
CurrentWalk(unique_dates, i, now_date, current_streak) ==
    IF i < 1 THEN current_streak
    ELSE IF i = Len(unique_dates)
         THEN IF now_date - unique_dates[i] <= GraceDays
              THEN CurrentWalk(unique_dates, i - 1, now_date, 1)
              ELSE current_streak
         ELSE IF unique_dates[i + 1] - unique_dates[i] = 1
              THEN CurrentWalk(unique_dates, i - 1, now_date, current_streak + 1)
              ELSE current_streak

\* Variant: the run still open at the end of the scan is not counted.
RECURSIVE LongestWalk_NoFinalMax(_, _, _, _)
LongestWalk_NoFinalMax(unique_dates, i, longest_streak, temp_streak) ==
    IF i > Len(unique_dates) THEN longest_streak
    ELSE IF unique_dates[i] - unique_dates[i - 1] = 1
         THEN LongestWalk_NoFinalMax(unique_dates, i + 1, longest_streak,
                                     temp_streak + 1)
         ELSE LongestWalk_NoFinalMax(unique_dates, i + 1,
                                     Max2(longest_streak, temp_streak), 1)

\* Variant: the running counter restarts at 0 after a gap.
RECURSIVE LongestWalk_ResetZero(_, _, _, _)
LongestWalk_ResetZero(unique_dates, i, longest_streak, temp_streak) ==
    IF i > Len(unique_dates) THEN Max2(longest_streak, temp_streak)
    ELSE IF unique_dates[i] - unique_dates[i - 1] = 1
         THEN LongestWalk_ResetZero(unique_dates, i + 1, longest_streak,
                                    temp_streak + 1)
         ELSE LongestWalk_ResetZero(unique_dates, i + 1,
                                    Max2(longest_streak, temp_streak), 0)

RECURSIVE LongestWalk(_, _, _, _)
LongestWalk(unique_dates, i, longest_streak, temp_streak) ==
    IF i > Len(unique_dates) THEN Max2(longest_streak, temp_streak)
    ELSE IF unique_dates[i] - unique_dates[i - 1] = 1
         THEN LongestWalk(unique_dates, i + 1, longest_streak, temp_streak + 1)
         ELSE LongestWalk(unique_dates, i + 1,
                          Max2(longest_streak, temp_streak), 1)

\* Variant: the dates are sorted but duplicates are kept.
UniqueDates_NoDedup(dates) == Sorted(dates)

UniqueDates(dates) == Sorted(SetToList(Range(dates)))

_calculate_streaks(dates, now_date) ==
    IF dates = <<>> THEN [current |-> 0, longest |-> 0]
    ELSE LET unique_dates == UniqueDates(dates)
         IN [current |-> CurrentWalk(unique_dates, Len(unique_dates), now_date, 0),
             longest |-> LongestWalk(unique_dates, 2, 0, 1)]

(***************************************************************************)
(* PredictionService.calculate_current_streak                              *)
(***************************************************************************)
RECURSIVE DropDuplicates(_)
DropDuplicates(s) ==
    IF s = <<>> THEN <<>>
    ELSE LET front == DropDuplicates(SubSeq(s, 1, Len(s) - 1))
         IN IF s[Len(s)] \in Range(front) THEN front
            ELSE Append(front, s[Len(s)])

SortedDescending(s) == Reversed(Sorted(s))

\* Variant: the count goes on past a gap instead of stopping at it.
RECURSIVE BackwardCount_PastGaps(_, _, _)
BackwardCount_PastGaps(df, i, current_streak) ==
    IF i > Len(df) THEN current_streak
    ELSE IF df[i - 1] - df[i] = 1
         THEN BackwardCount_PastGaps(df, i + 1, current_streak + 1)
         ELSE BackwardCount_PastGaps(df, i + 1, current_streak)

RECURSIVE BackwardCount(_, _, _)
BackwardCount(df, i, current_streak) ==
    IF i > Len(df) THEN current_streak
    ELSE IF df[i - 1] - df[i] = 1
         THEN BackwardCount(df, i + 1, current_streak + 1)
         ELSE current_streak

DedupDescending(completion_dates) ==
    SortedDescending(DropDuplicates(completion_dates))

\* Variant: only a completion made today keeps the streak alive.
calculate_current_streak_NoGrace(rows, now_date) ==
    IF rows = <<>> THEN 0
    ELSE LET df == DedupDescending(DatesOf(rows))
         IN IF df = <<>> THEN 0
            ELSE IF now_date - df[1] < GraceDays
                 THEN BackwardCount(df, 2, 1)
                 ELSE 0

calculate_current_streak(rows, now_date) ==
    IF rows = <<>> THEN 0
    ELSE LET df == DedupDescending(DatesOf(rows))
         IN IF df = <<>> THEN 0
            ELSE IF now_date - df[1] <= GraceDays
                 THEN BackwardCount(df, 2, 1)
                 ELSE 0

(***************************************************************************)
(* Environment: rows are written by the check-in collaborator and the      *)
(* seed script (completed_at = utcnow() - timedelta(days=i)); the clock    *)
(* advances.                                                               *)
(***************************************************************************)
InsertCompletion(habit_id, age, hour) ==
    /\ BagCardinality(completions) < MaxCompletions
    /\ completions' = completions (+)
           SetToBag({[habit_id |-> habit_id, date |-> today - age, hour |-> hour]})
    /\ UNCHANGED <<today, result, habits_db, calls>>

AdvanceDay ==
    /\ today < MaxDay
    /\ today' = today + 1
    /\ UNCHANGED <<completions, result, habits_db, calls>>

(***************************************************************************)
(* Direct calls of the two streak calculators on the rows of the table,    *)
(* handed over in any order.                                               *)
(***************************************************************************)
CallCalculateStreaks ==
    /\ \E rows \in RowList(completions) :
          LET streaks == _calculate_streaks(DatesOf(rows), today)
          IN result' = [op |-> "_calculate_streaks", rows |-> rows,
                        today |-> today, current |-> streaks.current,
                        longest |-> streaks.longest]
    /\ UNCHANGED <<completions, today, habits_db, calls>>

CallCalculateCurrentStreak ==
    /\ \E rows \in RowList(completions) :
          result' = [op |-> "calculate_current_streak", rows |-> rows,
                     today |-> today,
                     current |-> calculate_current_streak(rows, today)]
    /\ UNCHANGED <<completions, today, habits_db, calls>>

InitStreak ==
    /\ completions = EmptyBag
    /\ today = 0
    /\ result = NoResult
    /\ habits_db = DemoHabits
    /\ calls = <<>>

NextStreak ==
    \/ \E age \in StreakAges : InsertCompletion("h1", age, CheckinHour)
    \/ AdvanceDay
    \/ CallCalculateStreaks
    \/ CallCalculateCurrentStreak

SpecStreak == InitStreak /\ [][NextStreak]_vars

(***************************************************************************)
(* PredictionService.get_recent_completions: the rows of the habit with    *)
(* completed_at >= now - days, newest first.                               *)
(***************************************************************************)
TimeKey(date, hour) == date * 24 + hour

SelectRows(b, kept) == [r \in BagToSet(b) \cap kept |-> b[r]]

RECURSIVE OrderByCompletedAtDesc(_)
OrderByCompletedAtDesc(b) ==
    IF BagToSet(b) = {} THEN <<>>
    ELSE LET newest == CHOOSE r \in BagToSet(b) :
                 \A x \in BagToSet(b) :
                     TimeKey(r.date, r.hour) >= TimeKey(x.date, x.hour)
         IN <<newest>> \o OrderByCompletedAtDesc(b (-) SetToBag({newest}))

\* Variant: the completed_at >= since_date filter is missing.
get_recent_completions_NoWindow(table, habit_id, days, now_date, now_hour) ==
    OrderByCompletedAtDesc(
        SelectRows(table, {r \in BagToSet(table) : r.habit_id = habit_id}))

get_recent_completions(table, habit_id, days, now_date, now_hour) ==
    LET recent == {r \in BagToSet(table) :
                      /\ r.habit_id = habit_id
                      /\ TimeKey(r.date, r.hour)
                             >= TimeKey(now_date - days, now_hour)}
    IN OrderByCompletedAtDesc(SelectRows(table, recent))

(***************************************************************************)
(* PredictionService.calculate_consistency, in units of 1/100.  With k     *)
(* distinct days, S completions and Q the sum of the squared daily counts, *)
(* the sample variance is (k*Q - S*S) / (k*(k-1)) and the mean S/k, so     *)
(* variance / (mean + 1) = (k*Q - S*S) / ((k-1)*(S+k)).                    *)
(***************************************************************************)
RoundHalfEven(num, den) ==
    LET q == num \div den
        r == num % den
    IN IF 2 * r < den THEN q
       ELSE IF 2 * r > den THEN q + 1
       ELSE IF q % 2 = 0 THEN q ELSE q + 1

RECURSIVE SumOver(_, _)
SumOver(S, f) ==
    IF S = {} THEN 0
    ELSE LET x == CHOOSE y \in S : TRUE
         IN f[x] + SumOver(S \ {x}, f)

DailyCompletions(rows) ==
    [d \in Range(DatesOf(rows)) |->
        Cardinality({i \in DOMAIN rows : rows[i].date = d})]

SingleDayConsistency == 100

calculate_consistency(rows) ==
    IF rows = <<>> THEN 0
    ELSE LET daily_completions == DailyCompletions(rows)
             k == Cardinality(DOMAIN daily_completions)
         IN IF k < 2
            THEN (IF k = 1 THEN SingleDayConsistency ELSE 0)
            ELSE LET S == SumOver(DOMAIN daily_completions, daily_completions)
                     Q == SumOver(DOMAIN daily_completions,
                              [d \in DOMAIN daily_completions |->
                                  daily_completions[d] * daily_completions[d]])
                     num == k * Q - S * S
                     den == (k - 1) * (S + k)
                 IN IF num >= den THEN 0
                    ELSE RoundHalfEven(100 * (den - num), den)

(***************************************************************************)
(* PredictionService._calculate_prediction.  completion_rate in 1/300,     *)
(* consistency in 1/100, probability in 1/60 percent.                      *)
(***************************************************************************)
\* Variant: the streak bonus is not capped.
StreakBonus_NoCap(streak_length) == streak_length * 2

StreakBonus(streak_length) == Min2(StreakBonusCap, streak_length * 2)

Probability(completion_rate, streak_length, consistency) ==
    Min2(ProbabilityCap * 60,
         20 * completion_rate + 60 * StreakBonus(streak_length)
             + 9 * consistency)

\* Variant: a probability of exactly 80 is not yet high.
Category_StrictHigh(probability) ==
    IF probability > HighThreshold * 60 THEN "high"
    ELSE IF probability >= MediumThreshold * 60 THEN "medium"
    ELSE "low"

Category(probability) ==
    IF probability >= HighThreshold * 60 THEN "high"
    ELSE IF probability >= MediumThreshold * 60 THEN "medium"
    ELSE "low"

_calculate_prediction(completion_rate, streak_length, consistency) ==
    LET probability == Probability(completion_rate, streak_length, consistency)
    IN [prediction |-> Category(probability), probability |-> probability]

(***************************************************************************)
(* HabitPredictor._rule_based_prediction (ml/predictor.py).                *)
(***************************************************************************)
\* Variant: a probability of exactly 50 does not count as success.
_rule_based_prediction_StrictSuccess(completion_rate, current_streak, consistency_score) ==
    LET probability ==
            Min2(ProbabilityCap * 60,
                 20 * completion_rate
                     + 60 * Min2(StreakBonusCap, current_streak * 2)
                     + 9 * consistency_score)
        category ==
            IF probability >= HighThreshold * 60 THEN "high"
            ELSE IF probability >= MediumThreshold * 60 THEN "medium"
            ELSE "low"
    IN [prediction |-> category, probability |-> probability,
        will_succeed |-> (probability > MediumThreshold * 60),
        model_used |-> "rule_based"]

_rule_based_prediction(completion_rate, current_streak, consistency_score) ==
    LET probability ==
            Min2(ProbabilityCap * 60,
                 20 * completion_rate
                     + 60 * Min2(StreakBonusCap, current_streak * 2)
                     + 9 * consistency_score)
        category ==
            IF probability >= HighThreshold * 60 THEN "high"
            ELSE IF probability >= MediumThreshold * 60 THEN "medium"
            ELSE "low"
    IN [prediction |-> category, probability |-> probability,
        will_succeed |-> (probability >= MediumThreshold * 60),
        model_used |-> "rule_based"]

(***************************************************************************)
(* PredictionService.generate_recommendation: the template chosen; the     *)
(* title is substituted into it.  Rates 0.9, 0.6, 0.3 are 270, 180, 90.    *)
(***************************************************************************)
\* Variant: a streak of exactly 7 still counts as shorter than a week.
RecommendationTemplate_WeekIncl(prediction, completion_rate, streak_length) ==
    IF prediction = "high"
    THEN (IF completion_rate >= 270 THEN "excellent_work" ELSE "great_progress")
    ELSE IF prediction = "medium"
    THEN (IF completion_rate < 180 THEN "good_start"
          ELSE IF streak_length <= 7 THEN "building_momentum"
          ELSE "solid_progress")
    ELSE (IF completion_rate < 90 THEN "smaller_steps"
          ELSE IF streak_length = 0 THEN "dont_give_up"
          ELSE "keep_working")

RecommendationTemplate(prediction, completion_rate, streak_length) ==
    IF prediction = "high"
    THEN (IF completion_rate >= 270 THEN "excellent_work" ELSE "great_progress")
    ELSE IF prediction = "medium"
    THEN (IF completion_rate < 180 THEN "good_start"
          ELSE IF streak_length < 7 THEN "building_momentum"
          ELSE "solid_progress")
    ELSE (IF completion_rate < 90 THEN "smaller_steps"
          ELSE IF streak_length = 0 THEN "dont_give_up"
          ELSE "keep_working")

generate_recommendation(prediction, title, completion_rate, streak_length) ==
    [template |-> RecommendationTemplate(prediction, completion_rate, streak_length),
     title |-> title]

(***************************************************************************)
(* PredictionService.predict_habit_success.  probability and the           *)
(* completion_rate factor are rounded to one decimal: units of 1/10.       *)
(* The answer for an empty window has no analysis_quality and a fixed      *)
(* recommendation; both fields are kept so that answers have one shape.    *)
(***************************************************************************)
AnalysisQuality(n) ==
    IF n >= 10 THEN "high" ELSE IF n >= 5 THEN "medium" ELSE "low"

EmptyWindowPrediction ==
    [status |-> "ok",
     prediction |-> "low", probability |-> 100,
     completion_rate |-> 0, current_streak |-> 0, consistency |-> 0,
     recommendation |-> [template |-> "start_building", title |-> ""],
     analysis_quality |-> "none"]

predict_habit_success(table, habit_id, now_date, now_hour) ==
    IF habit_id \notin Habits
    THEN [status |-> "error", error |-> "Habit not found"]
    ELSE LET rows == get_recent_completions(table, habit_id,
                         PredictionWindowDays, now_date, now_hour)
         IN IF rows = <<>> THEN EmptyWindowPrediction
            ELSE LET completion_rate == 10 * Len(rows)
                     streak_length == calculate_current_streak(rows, now_date)
                     consistency_score == calculate_consistency(rows)
                     p == _calculate_prediction(completion_rate, streak_length,
                                                consistency_score)
                 IN [status |-> "ok",
                     prediction |-> p.prediction,
                     probability |-> RoundHalfEven(p.probability, 6),
                     completion_rate |-> RoundHalfEven(10 * completion_rate, 3),
                     current_streak |-> streak_length,
                     consistency |-> consistency_score,
                     recommendation |->
                         generate_recommendation(p.prediction, Title[habit_id],
                             completion_rate, streak_length),
                     analysis_quality |-> AnalysisQuality(Len(rows))]

(***************************************************************************)
(* SmartReminderService.get_completion_stats.  scheduler_service.py uses   *)
(* pd.DataFrame without importing pandas: with at least one row in the     *)
(* window the NameError is caught and the error value is returned.         *)
(***************************************************************************)
StatsRows(table, user_id, habit_id, days, now_date, now_hour) ==
    LET matching == {r \in BagToSet(table) :
                        /\ Owner[r.habit_id] = user_id
                        /\ r.habit_id = habit_id
                        /\ TimeKey(r.date, r.hour)
                               >= TimeKey(now_date - days, now_hour)}
    IN SelectRows(table, matching)

get_completion_stats(table, user_id, habit_id, days, now_date, now_hour) ==
    LET matching == StatsRows(table, user_id, habit_id, days, now_date, now_hour)
    IN IF BagToSet(matching) = {}
       THEN [status |-> "ok",
             total_completions |-> 0, completion_rate |-> 0,
             consistency_score |-> 0, current |-> 0, longest |-> 0]
       ELSE [status |-> "error", error |-> "name 'pd' is not defined"]

(***************************************************************************)
(* The service over the table: requests arrive at any hour of today.       *)
(***************************************************************************)
StatsDays == {7, PredictionWindowDays}

PredictHabitSuccess ==
    /\ \E habit_id \in HabitIds, now_hour \in Hours :
          result' = [op |-> "predict_habit_success",
                     habit_id |-> habit_id, now_hour |-> now_hour,
                     response |-> predict_habit_success(completions, habit_id,
                                                        today, now_hour)]
    /\ UNCHANGED <<completions, today, habits_db, calls>>

GetCompletionStats ==
    /\ \E user_id \in UserIds, habit_id \in HabitIds,
          days \in StatsDays, now_hour \in Hours :
          result' = [op |-> "get_completion_stats",
                     rows |-> OrderByCompletedAtDesc(
                                  StatsRows(completions, user_id, habit_id,
                                            days, today, now_hour)),
                     response |-> get_completion_stats(completions, user_id,
                                      habit_id, days, today, now_hour)]
    /\ UNCHANGED <<completions, today, habits_db, calls>>

CallCalculateConsistency ==
    /\ \E habit_id \in Habits :
          LET rows == OrderByCompletedAtDesc(
                          SelectRows(completions,
                              {r \in BagToSet(completions) :
                                   r.habit_id = habit_id}))
          IN result' = [op |-> "calculate_consistency", rows |-> rows,
                        consistency |-> calculate_consistency(rows)]
    /\ UNCHANGED <<completions, today, habits_db, calls>>

Init ==
    /\ completions = EmptyBag
    /\ today = 0
    /\ result = NoResult
    /\ habits_db = DemoHabits
    /\ calls = <<>>

Next ==
    \/ \E habit_id \in Habits, age \in WindowAges :
          InsertCompletion(habit_id, age, CheckinHour)
    \/ PredictHabitSuccess
    \/ GetCompletionStats
    \/ CallCalculateConsistency

Spec == Init /\ [][Next]_vars

(***************************************************************************)
(* The scorer applied to arbitrary inputs.                                 *)
(***************************************************************************)
RateInputs == {0, 60, 80, 90, 150, 180, 210, 240, 270, 300, 330}

ConsistencyInputs == {0, 25, 50, 60, 100}

StreakInputs == 0..MaxStreakInput

PredictionInputs == {"high", "medium", "low"}

CallCalculatePrediction ==
    /\ \E cr \in RateInputs, sl \in StreakInputs, cs \in ConsistencyInputs :
          result' = [op |-> "_calculate_prediction",
                     completion_rate |-> cr, streak_length |-> sl,
                     consistency |-> cs,
                     prediction |-> _calculate_prediction(cr, sl, cs).prediction,
                     probability |-> _calculate_prediction(cr, sl, cs).probability]
    /\ UNCHANGED <<completions, today, habits_db, calls>>

CallRuleBasedPrediction ==
    /\ \E cr \in RateInputs, sl \in StreakInputs, cs \in ConsistencyInputs :
          result' = [op |-> "_rule_based_prediction",
                     completion_rate |-> cr, streak_length |-> sl,
                     consistency |-> cs,
                     prediction |-> _rule_based_prediction(cr, sl, cs).prediction,
                     probability |-> _rule_based_prediction(cr, sl, cs).probability,
                     will_succeed |-> _rule_based_prediction(cr, sl, cs).will_succeed,
                     model_used |-> _rule_based_prediction(cr, sl, cs).model_used]
    /\ UNCHANGED <<completions, today, habits_db, calls>>

CallGenerateRecommendation ==
    /\ \E p \in PredictionInputs, h \in Habits, cr \in RateInputs,
          sl \in StreakInputs :
          result' = [op |-> "generate_recommendation",
                     prediction |-> p, habit_id |-> h,
                     completion_rate |-> cr, streak_length |-> sl,
                     recommendation |->
                         generate_recommendation(p, Title[h], cr, sl)]
    /\ UNCHANGED <<completions, today, habits_db, calls>>

NextScore ==
    \/ CallCalculatePrediction
    \/ CallRuleBasedPrediction
    \/ CallGenerateRecommendation

SpecScore == Init /\ [][NextScore]_vars


(***************************************************************************)
(* PredictionService.get_habit_insights.  Rates are rounded to two         *)
(* decimals (units of 1/100).  weekly > monthly * 1.1 is                   *)
(* 300 * len7 > 77 * len30, and weekly < monthly * 0.9 is                  *)
(* 300 * len7 < 63 * len30.                                                *)
(*                                                                         *)
(* most_common_hour is the first entry of value_counts().to_dict() with    *)
(* the largest count.  value_counts orders by count only; the order of     *)
(* hours with equal counts is whatever the installed pandas yields, so     *)
(* every hour with the largest count is a possible outcome.                *)
(***************************************************************************)
WeekDays == 7

NoHour == -1

HoursOf(rows) == [i \in DOMAIN rows |-> rows[i].hour]

HourDistribution(rows) ==
    [h \in Range(HoursOf(rows)) |->
        Cardinality({i \in DOMAIN rows : rows[i].hour = h})]

MostCommonHour(hour_distribution) ==
    IF DOMAIN hour_distribution = {} THEN {NoHour}
    ELSE {h \in DOMAIN hour_distribution :
             \A g \in DOMAIN hour_distribution :
                 hour_distribution[h] >= hour_distribution[g]}

Trend(len7, len30) ==
    IF 300 * len7 > 77 * len30 THEN "improving"
    ELSE IF 300 * len7 < 63 * len30 THEN "declining"
    ELSE "stable"

get_habit_insights(table, habit_id, now_date, now_hour, most_common_hour) ==
    IF habit_id \notin Habits
    THEN [status |-> "error", error |-> "Habit not found"]
    ELSE LET completions_7d == get_recent_completions(table, habit_id,
                                   WeekDays, now_date, now_hour)
             completions_30d == get_recent_completions(table, habit_id,
                                    PredictionWindowDays, now_date, now_hour)
         IN [status |-> "ok",
             habit_title |-> Title[habit_id],
             trend |-> Trend(Len(completions_7d), Len(completions_30d)),
             weekly_completion_rate |->
                 RoundHalfEven(100 * Len(completions_7d), WeekDays),
             monthly_completion_rate |->
                 RoundHalfEven(100 * Len(completions_30d), PredictionWindowDays),
             most_common_hour |-> most_common_hour,
             hour_distribution |-> HourDistribution(completions_30d),
             total_completions_30d |-> Len(completions_30d),
             current_streak |-> calculate_current_streak(completions_30d, now_date),
             consistency_score |-> calculate_consistency(completions_30d)]

(***************************************************************************)
(* SmartReminderService.analyze_optimal_reminder_time.  The query has no   *)
(* time window.  With fewer than 3 rows None is returned (logged as        *)
(* info).  With 3 or more, pd.DataFrame raises NameError (pandas is not    *)
(* imported in scheduler_service.py); the handler logs the error and       *)
(* returns None as well, so lines 51-82 never run.                         *)
(***************************************************************************)
MinCompletions == 3

ReminderRows(table, user_id, habit_id) ==
    SelectRows(table, {r \in BagToSet(table) :
                          /\ Owner[r.habit_id] = user_id
                          /\ r.habit_id = habit_id})

analyze_optimal_reminder_time(table, user_id, habit_id) ==
    IF BagCardinality(ReminderRows(table, user_id, habit_id)) < MinCompletions
    THEN [value |-> "None", log |-> "info: not enough completion data"]
    ELSE [value |-> "None", log |-> "error: name 'pd' is not defined"]

(***************************************************************************)
(* routers/insights.py get_optimal_reminder_time: 404 unless the habit     *)
(* belongs to the current user; a None analysis becomes the                *)
(* not-enough-data message, anything else is passed through.               *)
(***************************************************************************)
get_optimal_reminder_time(table, current_user, habit_id) ==
    IF habit_id \notin Habits \/ Owner[habit_id] # current_user
    THEN [http |-> 404, detail |-> "Habit not found"]
    ELSE LET analysis == analyze_optimal_reminder_time(table, current_user,
                                                       habit_id)
         IN IF analysis.value = "None"
            THEN [http |-> 200, body |-> "not_enough_data",
                  min_completions_needed |-> MinCompletions,
                  current_completions |-> 0]
            ELSE [http |-> 200, body |-> "analysis", analysis |-> analysis]

(***************************************************************************)
(* The hour analyses over completions recorded at different hours.         *)
(***************************************************************************)
CompletionHours == {5, 18}

HourAges == {0, WeekDays + 1}

HabitTotal(table, habit_id) ==
    BagCardinality(
        SelectRows(table, {r \in BagToSet(table) : r.habit_id = habit_id}))

GetHabitInsights ==
    /\ \E habit_id \in HabitIds, now_hour \in Hours :
          LET rows == get_recent_completions(completions, habit_id,
                          PredictionWindowDays, today, now_hour)
          IN \E most_common_hour \in MostCommonHour(HourDistribution(rows)) :
                result' = [op |-> "get_habit_insights",
                           habit_id |-> habit_id,
                           now_hour |-> now_hour,
                           habit_total |-> HabitTotal(completions, habit_id),
                           rows |-> rows,
                           response |-> get_habit_insights(completions, habit_id,
                                            today, now_hour, most_common_hour)]
    /\ UNCHANGED <<completions, today, habits_db, calls>>

AnalyzeOptimalReminderTime ==
    /\ \E user_id \in UserIds, habit_id \in Habits :
          result' = [op |-> "analyze_optimal_reminder_time",
                     habit_id |-> habit_id,
                     habit_total |-> BagCardinality(
                         ReminderRows(completions, user_id, habit_id)),
                     rows |-> OrderByCompletedAtDesc(
                                  ReminderRows(completions, user_id, habit_id)),
                     response |-> analyze_optimal_reminder_time(completions,
                                      user_id, habit_id)]
    /\ UNCHANGED <<completions, today, habits_db, calls>>

GetOptimalReminderTime ==
    /\ \E current_user \in UserIds, habit_id \in HabitIds :
          result' = [op |-> "get_optimal_reminder_time",
                     current_user |-> current_user,
                     habit_id |-> habit_id,
                     habit_total |-> HabitTotal(completions, habit_id),
                     response |-> get_optimal_reminder_time(completions,
                                      current_user, habit_id)]
    /\ UNCHANGED <<completions, today, habits_db, calls>>

NextHours ==
    \/ \E habit_id \in Habits, age \in HourAges, hour \in CompletionHours :
          InsertCompletion(habit_id, age, hour)
    \/ GetHabitInsights
    \/ AnalyzeOptimalReminderTime
    \/ GetOptimalReminderTime

SpecHours == Init /\ [][NextHours]_vars

(***************************************************************************)
(* Requests with a caller-supplied window.  The services use days as       *)
(* given: since_date = utcnow() - timedelta(days=days) lies at or after    *)
(* now when days <= 0, and the query simply matches fewer rows.  Only the  *)
(* endpoint (routers/insights.py get_completion_stats) checks the range:   *)
(* 404 unless the habit belongs to the user, 400 unless 1 <= days <= 365,  *)
(* 500 when the service answers with an error, else the statistics.        *)
(***************************************************************************)
MaxWindowDays == 365

RequestDays == {-1, 0, 1, MaxWindowDays + 1}

RecentAges == {0, 1}

get_completion_stats_endpoint(table, user, habit_id, days, now_date, now_hour) ==
    IF habit_id \notin Habits \/ Owner[habit_id] # user
    THEN [http |-> 404, detail |-> "Habit not found"]
    ELSE IF days < 1 \/ days > MaxWindowDays
    THEN [http |-> 400, detail |-> "Days must be between 1 and 365"]
    ELSE LET stats == get_completion_stats(table, user, habit_id,
                                           days, now_date, now_hour)
         IN IF stats.status = "error"
            THEN [http |-> 500, detail |-> stats.error]
            ELSE [http |-> 200, stats |-> stats]

GetCompletionStatsDays ==
    /\ \E user_id \in UserIds, habit_id \in Habits,
          days \in RequestDays, now_hour \in Hours :
          result' = [op |-> "get_completion_stats",
                     habit_id |-> habit_id,
                     days |-> days,
                     rows |-> OrderByCompletedAtDesc(
                                  StatsRows(completions, user_id, habit_id,
                                            days, today, now_hour)),
                     response |-> get_completion_stats(completions, user_id,
                                      habit_id, days, today, now_hour)]
    /\ UNCHANGED <<completions, today, habits_db, calls>>

GetRecentCompletions ==
    /\ \E habit_id \in Habits, days \in RequestDays, now_hour \in Hours :
          result' = [op |-> "get_recent_completions",
                     days |-> days,
                     response |-> [status |-> "ok",
                                   rows |-> get_recent_completions(completions,
                                                habit_id, days, today, now_hour)]]
    /\ UNCHANGED <<completions, today, habits_db, calls>>

GetCompletionStatsEndpoint ==
    /\ \E current_user \in UserIds, habit_id \in HabitIds,
          days \in RequestDays, now_hour \in Hours :
          result' = [op |-> "get_completion_stats_endpoint",
                     current_user |-> current_user,
                     habit_id |-> habit_id,
                     days |-> days,
                     response |-> get_completion_stats_endpoint(completions,
                                      current_user, habit_id, days,
                                      today, now_hour)]
    /\ UNCHANGED <<completions, today, habits_db, calls>>

NextWindow ==
    \/ \E habit_id \in Habits, age \in RecentAges :
          InsertCompletion(habit_id, age, CheckinHour)
    \/ GetCompletionStatsDays
    \/ GetRecentCompletions
    \/ GetCompletionStatsEndpoint

SpecWindow == Init /\ [][NextWindow]_vars

(***************************************************************************)
(* The analyses over a table that also holds completions older than the    *)
(* prediction window and older than the widest window a request may name.  *)
(***************************************************************************)
ScopeAges == {0, PredictionWindowDays + 1, MaxWindowDays + 1}

NextScope ==
    \/ \E habit_id \in Habits, age \in ScopeAges :
          InsertCompletion(habit_id, age, CheckinHour)
    \/ PredictHabitSuccess
    \/ GetHabitInsights
    \/ AnalyzeOptimalReminderTime
    \/ GetCompletionStatsDays

SpecScope == Init /\ [][NextScope]_vars

(***************************************************************************)
(* Concurrent analyses.  Each request builds its own PredictionService     *)
(* around its own session (prediction_service.py 19-20, routers/           *)
(* insights.py); get_habit_insights then runs the habit lookup, the 7-day  *)
(* query, the 30-day query and the computation in that order, keeping      *)
(* what it read in local variables.  Here result holds the position and    *)
(* the locals of every running request, and the steps of different         *)
(* requests interleave freely at the granularity of the queries.           *)
(***************************************************************************)
Tasks == {1, 2}

StoredRows ==
    {[habit_id |-> h, date |-> 0 - age, hour |-> hour] :
        h \in Habits, age \in HourAges, hour \in CompletionHours}

IdleTask ==
    [pc |-> "idle", habit_id |-> "none", now_hour |-> 0,
     completions_7d |-> <<>>, completions_30d |-> <<>>,
     response |-> [status |-> "none"]]

\* Variant: the service keeps the habit of the latest request in a field
\* shared by all requests.
LoadRecent_SharedHabit(table, tasks, t, days, now_date) ==
    get_recent_completions(table, tasks[1].habit_id, days, now_date,
                           tasks[t].now_hour)

LoadRecent(table, tasks, t, days, now_date) ==
    get_recent_completions(table, tasks[t].habit_id, days, now_date,
                           tasks[t].now_hour)

BuildInsights(habit_id, completions_7d, completions_30d, now_date, most_common_hour) ==
    [status |-> "ok",
     habit_title |-> Title[habit_id],
     trend |-> Trend(Len(completions_7d), Len(completions_30d)),
     weekly_completion_rate |->
         RoundHalfEven(100 * Len(completions_7d), WeekDays),
     monthly_completion_rate |->
         RoundHalfEven(100 * Len(completions_30d), PredictionWindowDays),
     most_common_hour |-> most_common_hour,
     hour_distribution |-> HourDistribution(completions_30d),
     total_completions_30d |-> Len(completions_30d),
     current_streak |-> calculate_current_streak(completions_30d, now_date),
     consistency_score |-> calculate_consistency(completions_30d)]

SetTask(t, task) ==
    /\ result' = [result EXCEPT !.tasks[t] = task]
    /\ UNCHANGED <<completions, today, habits_db, calls>>

StartInsights(t) ==
    /\ result.tasks[t].pc = "idle"
    /\ \E habit_id \in HabitIds, now_hour \in Hours :
          SetTask(t, [IdleTask EXCEPT !.pc = "lookup",
                                      !.habit_id = habit_id,
                                      !.now_hour = now_hour])

LookupHabit(t) ==
    /\ result.tasks[t].pc = "lookup"
    /\ IF result.tasks[t].habit_id \in Habits
       THEN SetTask(t, [result.tasks[t] EXCEPT !.pc = "query_7d"])
       ELSE SetTask(t, [result.tasks[t] EXCEPT
                           !.pc = "done",
                           !.response = [status |-> "error",
                                         error |-> "Habit not found"]])

QueryWeek(t) ==
    /\ result.tasks[t].pc = "query_7d"
    /\ SetTask(t, [result.tasks[t] EXCEPT
                      !.pc = "query_30d",
                      !.completions_7d =
                          LoadRecent(completions, result.tasks, t,
                                     WeekDays, today)])

QueryMonth(t) ==
    /\ result.tasks[t].pc = "query_30d"
    /\ SetTask(t, [result.tasks[t] EXCEPT
                      !.pc = "compute",
                      !.completions_30d =
                          LoadRecent(completions, result.tasks, t,
                                     PredictionWindowDays, today)])

ReturnInsights(t) ==
    /\ result.tasks[t].pc = "compute"
    /\ \E most_common_hour \in
             MostCommonHour(HourDistribution(result.tasks[t].completions_30d)) :
          SetTask(t, [result.tasks[t] EXCEPT
                         !.pc = "done",
                         !.response =
                             BuildInsights(result.tasks[t].habit_id,
                                           result.tasks[t].completions_7d,
                                           result.tasks[t].completions_30d,
                                           today, most_common_hour)])

FinishRequest(t) ==
    /\ result.tasks[t].pc = "done"
    /\ SetTask(t, IdleTask)

InitConcurrent ==
    /\ completions \in {SetToBag(S) : S \in SUBSET StoredRows}
    /\ today = 0
    /\ result = [op |-> "concurrent", tasks |-> [t \in Tasks |-> IdleTask]]
    /\ habits_db = DemoHabits
    /\ calls = <<>>

NextConcurrent ==
    \E t \in Tasks :
        \/ StartInsights(t)
        \/ LookupHabit(t)
        \/ QueryWeek(t)
        \/ QueryMonth(t)
        \/ ReturnInsights(t)
        \/ FinishRequest(t)

SpecConcurrent == InitConcurrent /\ [][NextConcurrent]_vars

(***************************************************************************)
(* routers/insights.py get_habit_recommendations.  The habit's goal_type   *)
(* and target_value are read here only, for the goal_adjustment entry;     *)
(* the reminder_timing entry needs an analysis with confidence above 70,   *)
(* which analyze_optimal_reminder_time never returns.                      *)
(***************************************************************************)
GoalType == [h1 |-> "count", h2 |-> "duration"]

TargetValue == [h1 |-> 8, h2 |-> 90]

LongDurationMinutes == 60

ReminderConfidenceFloor == 70

SuccessEntry(prediction) ==
    IF prediction.status = "error" THEN <<>>
    ELSE <<[type |-> "success_prediction",
            priority |-> IF prediction.prediction = "low"
                         THEN "high" ELSE "medium",
            message |-> prediction.recommendation,
            probability |-> prediction.probability]>>

ReminderEntry(reminder_analysis) ==
    IF reminder_analysis.value = "None" THEN <<>>
    ELSE IF reminder_analysis.confidence > ReminderConfidenceFloor
    THEN <<[type |-> "reminder_timing", priority |-> "medium",
            suggested_hour |-> reminder_analysis.suggested_hour,
            confidence |-> reminder_analysis.confidence]>>
    ELSE <<>>

GoalEntry(habit_id) ==
    IF GoalType[habit_id] = "duration"
          /\ TargetValue[habit_id] > LongDurationMinutes
    THEN <<[type |-> "goal_adjustment", priority |-> "low"]>>
    ELSE <<>>

\* Variant: the priority of the prediction entry is taken from the goal type.
RecommendationList_TypedPriority(habit_id, prediction, reminder_analysis) ==
    [i \in DOMAIN SuccessEntry(prediction) |->
        [SuccessEntry(prediction)[i] EXCEPT
            !.priority = IF GoalType[habit_id] = "duration"
                         THEN "low" ELSE @]]
        \o ReminderEntry(reminder_analysis) \o GoalEntry(habit_id)

RecommendationList(habit_id, prediction, reminder_analysis) ==
    SuccessEntry(prediction) \o ReminderEntry(reminder_analysis)
        \o GoalEntry(habit_id)

get_habit_recommendations(table, user, habit_id, now_date, now_hour) ==
    IF habit_id \notin Habits \/ Owner[habit_id] # user
    THEN [http |-> 404, detail |-> "Habit not found"]
    ELSE LET recommendations ==
                 RecommendationList(habit_id,
                     predict_habit_success(table, habit_id, now_date, now_hour),
                     analyze_optimal_reminder_time(table, user, habit_id))
         IN [http |-> 200,
             habit_title |-> Title[habit_id],
             recommendations |-> recommendations,
             total_recommendations |-> Len(recommendations)]

GetHabitRecommendations ==
    /\ \E current_user \in UserIds, habit_id \in HabitIds, now_hour \in Hours :
          result' = [op |-> "get_habit_recommendations",
                     current_user |-> current_user,
                     habit_id |-> habit_id,
                     now_hour |-> now_hour,
                     response |-> get_habit_recommendations(completions,
                                      current_user, habit_id, today, now_hour)]
    /\ UNCHANGED <<completions, today, habits_db, calls>>

(***************************************************************************)
(* Two habits of one user, with different titles and goal types, that may  *)
(* hold the same completions.                                              *)
(***************************************************************************)
PairCheckins == {<<0, 5>>, <<0, 18>>, <<1, 5>>}

NextPair ==
    \/ \E habit_id \in Habits, at \in PairCheckins :
          InsertCompletion(habit_id, at[1], at[2])
    \/ PredictHabitSuccess
    \/ GetHabitInsights
    \/ GetHabitRecommendations

SpecPair == Init /\ [][NextPair]_vars

(***************************************************************************)
(* The handlers of the in-memory habit store: create_habit, checkin_habit  *)
(* and miss_habit of backend/app/main.py and simple_backend.py;            *)
(* minimal_backend.py has the same check-in and miss handlers and a        *)
(* create_habit without the goal_type check.  uuid4 ids are taken in       *)
(* order from UuidPool.                                                    *)
(***************************************************************************)
MaxHabits == 3

MaxCalls == 4

GoalTypes == {"check", "count", "duration"}

RequestGoalTypes == {"check", "duration", "weekly"}

UuidPool == <<"uuid-1", "uuid-2", "uuid-3">>

RequestIds == {"demo-1", "demo-2", "uuid-1", "missing"}

\* Variant: a missing id falls back to the first habit of the list.
FindHabit_FirstIfMissing(db, habit_id) ==
    IF \E i \in DOMAIN db : db[i].id = habit_id
    THEN CHOOSE i \in DOMAIN db :
             /\ db[i].id = habit_id
             /\ \A j \in DOMAIN db : db[j].id = habit_id => i <= j
    ELSE 1

\* next((h for h in habits_db if h["id"] == habit_id), None): the index of
\* the first habit with the id, 0 for None.
FindHabit(db, habit_id) ==
    IF \E i \in DOMAIN db : db[i].id = habit_id
    THEN CHOOSE i \in DOMAIN db :
             /\ db[i].id = habit_id
             /\ \A j \in DOMAIN db : db[j].id = habit_id => i <= j
    ELSE 0

\* Variant: the habit stays due after a check-in.
CheckedIn_StillDue(habit) ==
    [habit EXCEPT !.current_streak_length = @ + 1]

CheckedIn(habit) ==
    [habit EXCEPT !.current_streak_length = @ + 1,
                  !.is_due_today = FALSE]

Missed(habit) ==
    [habit EXCEPT !.current_streak_length = IF @ > 0 THEN 0 ELSE @,
                  !.is_due_today = FALSE]

\* Variant: a new habit starts with a streak of 1.
NewHabit_StreakOne(id, title, goal_type, target_value) ==
    [id |-> id, title |-> title, goal_type |-> goal_type,
     target_value |-> target_value, current_streak_length |-> 1,
     is_due_today |-> TRUE, best_hour |-> NoBestHour]

NewHabit(id, title, goal_type, target_value) ==
    [id |-> id, title |-> title, goal_type |-> goal_type,
     target_value |-> target_value, current_streak_length |-> 0,
     is_due_today |-> TRUE, best_hour |-> NoBestHour]

Served(op, habit_id, response) ==
    /\ result' = [op |-> op, habit_id |-> habit_id, response |-> response]
    /\ calls' = Append(calls, [op |-> op, habit_id |-> habit_id,
                               http |-> response.http])
    /\ UNCHANGED <<completions, today>>

AppendHabit(title, goal_type, target_value) ==
    LET new_habit == NewHabit(UuidPool[Len(habits_db) - Len(DemoHabits) + 1],
                              title, goal_type, target_value)
    IN /\ Len(habits_db) < MaxHabits
       /\ Len(habits_db) - Len(DemoHabits) < Len(UuidPool)
       /\ habits_db' = Append(habits_db, new_habit)
       /\ Served("create_habit", new_habit.id,
                 [http |-> 200, habit |-> new_habit])

create_habit(title, goal_type, target_value) ==
    /\ Len(calls) < MaxCalls
    /\ IF goal_type \notin GoalTypes
       THEN /\ habits_db' = habits_db
            /\ Served("create_habit", "none",
                   [http |-> 400,
                    detail |-> "goal_type must be 'check', 'count', or 'duration'"])
       ELSE AppendHabit(title, goal_type, target_value)

create_habit_minimal(title, goal_type, target_value) ==
    /\ Len(calls) < MaxCalls
    /\ AppendHabit(title, goal_type, target_value)

checkin_habit(habit_id) ==
    LET i == FindHabit(habits_db, habit_id)
    IN /\ Len(calls) < MaxCalls
       /\ IF i = 0
          THEN /\ habits_db' = habits_db
               /\ Served("checkin_habit", habit_id,
                      [http |-> 404, detail |-> "Habit not found"])
          ELSE /\ habits_db' = [habits_db EXCEPT ![i] = CheckedIn(@)]
               /\ Served("checkin_habit", habit_id,
                      [http |-> 200,
                       streak |-> CheckedIn(habits_db[i]).current_streak_length])

miss_habit(habit_id) ==
    LET i == FindHabit(habits_db, habit_id)
    IN /\ Len(calls) < MaxCalls
       /\ IF i = 0
          THEN /\ habits_db' = habits_db
               /\ Served("miss_habit", habit_id,
                      [http |-> 404, detail |-> "Habit not found"])
          ELSE /\ habits_db' = [habits_db EXCEPT ![i] = Missed(@)]
               /\ Served("miss_habit", habit_id,
                      [http |-> 200,
                       streak |-> Missed(habits_db[i]).current_streak_length])

NextStore ==
    \/ \E goal_type \in RequestGoalTypes : create_habit("Read", goal_type, 20)
    \/ \E habit_id \in RequestIds : checkin_habit(habit_id)
    \/ \E habit_id \in RequestIds : miss_habit(habit_id)

SpecStore == Init /\ [][NextStore]_vars

NextMinimalStore ==
    \/ \E goal_type \in RequestGoalTypes :
          create_habit_minimal("Read", goal_type, 20)
    \/ \E habit_id \in RequestIds : checkin_habit(habit_id)
    \/ \E habit_id \in RequestIds : miss_habit(habit_id)

SpecMinimalStore == Init /\ [][NextMinimalStore]_vars

(***************************************************************************)
(* routers/insights.py predict_habit_success and get_habit_insights: 404   *)
(* unless the habit belongs to the current user, 500 when the service      *)
(* answers with an error, else the service's answer.  With the three       *)
(* endpoints above these are all the routes of the insights router.        *)
(***************************************************************************)
\* Variant: the lookup filters on the habit id only.
predict_habit_success_endpoint_AnyOwner(table, user, habit_id, now_date, now_hour) ==
    IF habit_id \notin Habits
    THEN [http |-> 404, detail |-> "Habit not found"]
    ELSE LET prediction == predict_habit_success(table, habit_id,
                                                 now_date, now_hour)
         IN IF prediction.status = "error"
            THEN [http |-> 500, detail |-> prediction.error]
            ELSE [http |-> 200, prediction |-> prediction]

predict_habit_success_endpoint(table, user, habit_id, now_date, now_hour) ==
    IF habit_id \notin Habits \/ Owner[habit_id] # user
    THEN [http |-> 404, detail |-> "Habit not found"]
    ELSE LET prediction == predict_habit_success(table, habit_id,
                                                 now_date, now_hour)
         IN IF prediction.status = "error"
            THEN [http |-> 500, detail |-> prediction.error]
            ELSE [http |-> 200, prediction |-> prediction]

get_habit_insights_endpoint(table, user, habit_id, now_date, now_hour, most_common_hour) ==
    IF habit_id \notin Habits \/ Owner[habit_id] # user
    THEN [http |-> 404, detail |-> "Habit not found"]
    ELSE LET insights == get_habit_insights(table, habit_id, now_date,
                                            now_hour, most_common_hour)
         IN IF insights.status = "error"
            THEN [http |-> 500, detail |-> insights.error]
            ELSE [http |-> 200, insights |-> insights]

PredictHabitSuccessEndpoint ==
    /\ \E current_user \in UserIds, habit_id \in HabitIds, now_hour \in Hours :
          result' = [op |-> "predict_habit_success_endpoint",
                     current_user |-> current_user,
                     habit_id |-> habit_id,
                     response |-> predict_habit_success_endpoint(completions,
                                      current_user, habit_id, today, now_hour)]
    /\ UNCHANGED <<completions, today, habits_db, calls>>

GetHabitInsightsEndpoint ==
    /\ \E current_user \in UserIds, habit_id \in HabitIds, now_hour \in Hours :
          \E most_common_hour \in
                MostCommonHour(HourDistribution(
                    get_recent_completions(completions, habit_id,
                        PredictionWindowDays, today, now_hour))) :
             result' = [op |-> "get_habit_insights_endpoint",
                        current_user |-> current_user,
                        habit_id |-> habit_id,
                        response |-> get_habit_insights_endpoint(completions,
                                         current_user, habit_id, today,
                                         now_hour, most_common_hour)]
    /\ UNCHANGED <<completions, today, habits_db, calls>>

NextEndpoints ==
    \/ \E habit_id \in Habits, age \in HourAges :
          InsertCompletion(habit_id, age, CheckinHour)
    \/ PredictHabitSuccessEndpoint
    \/ GetOptimalReminderTime
    \/ GetCompletionStatsEndpoint
    \/ GetHabitInsightsEndpoint
    \/ GetHabitRecommendations

SpecEndpoints == Init /\ [][NextEndpoints]_vars

(***************************************************************************)
(* HabitPredictor.predict (ml/predictor.py).  load_model leaves            *)
(* self.model None when the model file is missing or cannot be loaded.     *)
(* With a model, predict either gets a label and a success probability     *)
(* from it (prob_success in percent; the tier by 0.8 and 0.5) or the       *)
(* model raises and the except clause falls back to the rules.  What a     *)
(* trained model answers is not determined by this code: it is an input.   *)
(***************************************************************************)
ModelStates == {"None", "loaded"}

ModelOutcomes ==
    {[raises |-> TRUE, label |-> 0, prob_success |-> 0],
     [raises |-> FALSE, label |-> 0, prob_success |-> 50],
     [raises |-> FALSE, label |-> 1, prob_success |-> 80]}

PredictorRates == {0, 90, 150, 240, 270, 300}

PredictorStreaks == {0, 1, 5, 10, MaxStreakInput}

PredictorConsistencies == {0, 50, 100}

MlPrediction(outcome) ==
    [prediction |-> IF outcome.prob_success >= HighThreshold THEN "high"
                    ELSE IF outcome.prob_success >= MediumThreshold
                    THEN "medium" ELSE "low",
     probability |-> outcome.prob_success * 60,
     will_succeed |-> (outcome.label = 1),
     model_used |-> "ml"]

predict(model, outcome, completion_rate, current_streak, consistency_score) ==
    IF model = "None"
    THEN _rule_based_prediction(completion_rate, current_streak,
                                consistency_score)
    ELSE IF outcome.raises
    THEN _rule_based_prediction(completion_rate, current_streak,
                                consistency_score)
    ELSE MlPrediction(outcome)

CallPredict ==
    /\ \E model \in ModelStates, outcome \in ModelOutcomes,
          cr \in PredictorRates, sl \in PredictorStreaks,
          cs \in PredictorConsistencies :
          result' = [op |-> "predict",
                     model |-> model, raises |-> outcome.raises,
                     completion_rate |-> cr, streak_length |-> sl,
                     consistency |-> cs,
                     response |-> predict(model, outcome, cr, sl, cs)]
    /\ UNCHANGED <<completions, today, habits_db, calls>>

NextPredictor == CallPredict

SpecPredictor == Init /\ [][NextPredictor]_vars

(***************************************************************************)
(* Streak properties.  A run is a set of consecutive calendar days, all    *)
(* with a completion; RunEndingAt measures the maximal run ending at d.    *)
(***************************************************************************)
StreakOps == {"_calculate_streaks", "calculate_current_streak"}

IsStreakResult == result.op \in StreakOps /\ result.rows # <<>>

ResultDates == Range(DatesOf(result.rows))

MostRecent == SetMax(ResultDates)

RunEndingAt(S, d) ==
    SetMax({k \in 1..Cardinality(S) : \A j \in 0..(k - 1) : (d - j) \in S})

LongestRun(S) ==
    IF S = {} THEN 0 ELSE SetMax({RunEndingAt(S, d) : d \in S})

\* C1: the current streak of both calculators is 0 when the most recent
\* completion date is more than one day before today, and otherwise the
\* length of the maximal run of consecutive days ending at that date.
C1_CurrentStreak ==
    IsStreakResult =>
        result.current =
            IF result.today - MostRecent > 1 THEN 0
            ELSE RunEndingAt(ResultDates, MostRecent)

\* Three consecutive days ending today give a current streak of 3.
C1_Witness ==
    /\ IsStreakResult
    /\ ResultDates = {result.today - 2, result.today - 1, result.today}
    /\ result.current = 3

\* C2: the longest streak is the length of the longest run among the unique
\* dates: 0 for no date, 1 for one date, whatever today is.
C2_LongestStreak ==
    result.op = "_calculate_streaks" =>
        /\ result.longest = LongestRun(Range(DatesOf(result.rows)))
        /\ result.rows = <<>> => result.longest = 0
        /\ Cardinality(Range(DatesOf(result.rows))) = 1 => result.longest = 1

\* Two consecutive days, a gap, then one day (today): longest 2, current 1.
C2_Witness ==
    /\ result.op = "_calculate_streaks"
    /\ Range(DatesOf(result.rows)) =
           {result.today - 4, result.today - 3, result.today}
    /\ result.longest = 2
    /\ result.current = 1

\* C3: for a non-empty input, longest_streak >= current_streak >= 0.
C3_StreakOrder ==
    (result.op = "_calculate_streaks" /\ result.rows # <<>>) =>
        /\ result.current >= 0
        /\ result.longest >= result.current

\* A live streak of 2 that is also the longest, after an older single day.
C3_Witness ==
    /\ result.op = "_calculate_streaks"
    /\ Cardinality(Range(DatesOf(result.rows))) = 3
    /\ result.current = 2
    /\ result.longest = 2

\* C4: one day of grace.  With the most recent completion on day d, the
\* current streak is at least 1 for today = d and today = d + 1, the same
\* value in a call made on d and a later call made on d + 1 over the same
\* dates, and 0 from d + 2 on; a single completion today gives 1.
C4_GraceState ==
    IsStreakResult =>
        /\ result.today \in {MostRecent, MostRecent + 1} => result.current >= 1
        /\ result.today >= MostRecent + 2 => result.current = 0
        /\ ResultDates = {result.today} => result.current = 1

C4_GraceStep ==
    (/\ IsStreakResult
     /\ result'.op = result.op
     /\ Range(DatesOf(result'.rows)) = ResultDates
     /\ result.today = MostRecent
     /\ result'.today = MostRecent + 1)
        => result'.current = result.current

C4_Grace == [][C4_GraceStep]_vars /\ []C4_GraceState

\* The streak of 2 is still alive the day after its last completion.
C4_Witness ==
    /\ IsStreakResult
    /\ result.today = MostRecent + 1
    /\ result.current = 2

\* C5: the streak result depends only on the set of distinct dates: every
\* reordering of the input, with or without one more completion on a date
\* that already has one, gives the same current and longest streak.
Variants(rows) ==
    {q \in UNION {[1..n -> Range(rows)] : n \in 1..(Len(rows) + 1)} :
        Range(q) = Range(rows)}

C5_SetOnly ==
    IsStreakResult =>
        \A q \in Variants(result.rows) :
            IF result.op = "_calculate_streaks"
            THEN LET streaks == _calculate_streaks(DatesOf(q), result.today)
                 IN /\ streaks.current = result.current
                    /\ streaks.longest = result.longest
            ELSE calculate_current_streak(q, result.today) = result.current

\* An input that is out of order and has two completions on one date.
C5_Witness ==
    /\ IsStreakResult
    /\ Len(result.rows) = 3
    /\ result.rows[1].date = result.rows[3].date
    /\ result.rows[2].date = result.rows[1].date + 1
    /\ result.current = 2

(***************************************************************************)
(* Success predictor properties.                                           *)
(***************************************************************************)
\* C6: the probability of _calculate_prediction is
\* min(95, completion_rate*100 + min(20, 2*current_streak)
\*          + 15*consistency_score); it never exceeds 95, and
\* (0.7, 8, 0.6) yields 95.  (Units: 1/60 percent, so 95 is 5700.)
C6_Probability ==
    result.op = "_calculate_prediction" =>
        LET bonus == IF 2 * result.streak_length < 20
                     THEN 2 * result.streak_length ELSE 20
            raw == 20 * result.completion_rate + 60 * bonus
                       + 9 * result.consistency
        IN /\ result.probability = (IF raw < 5700 THEN raw ELSE 5700)
           /\ result.probability <= 5700
           /\ (/\ result.completion_rate = 210
               /\ result.streak_length = 8
               /\ result.consistency = 60) => result.probability = 5700

\* The worked example of the specification: (0.7, 8, 0.6) gives 95.
C6_Witness ==
    /\ result.op = "_calculate_prediction"
    /\ result.completion_rate = 210
    /\ result.streak_length = 8
    /\ result.consistency = 60
    /\ result.probability = 5700

\* C7: the tier is high exactly when probability >= 80, medium exactly when
\* 50 <= probability < 80, low exactly when probability < 50, and nothing
\* else, for _calculate_prediction and for _rule_based_prediction.
C7_TierPartition ==
    result.op \in {"_calculate_prediction", "_rule_based_prediction"} =>
        /\ result.prediction \in {"high", "medium", "low"}
        /\ result.prediction = "high" <=> result.probability >= 80 * 60
        /\ result.prediction = "medium" <=>
               (50 * 60 <= result.probability /\ result.probability < 80 * 60)
        /\ result.prediction = "low" <=> result.probability < 50 * 60

\* A probability of exactly 80 is high.
C7_Witness ==
    /\ result.op = "_calculate_prediction"
    /\ result.probability = 80 * 60
    /\ result.prediction = "high"

\* C8: predict_habit_success for an existing habit with no completion in
\* the 30-day window answers low, 10.0, with all three factors 0.
NoCompletionInWindow(habit_id, now_hour) ==
    \A r \in BagToSet(completions) :
        r.habit_id = habit_id =>
            \/ r.date < today - 30
            \/ (r.date = today - 30 /\ r.hour < now_hour)

C8_EmptyWindowStep ==
    (/\ PredictHabitSuccess
     /\ result'.habit_id \in Habits
     /\ NoCompletionInWindow(result'.habit_id, result'.now_hour))
        => /\ result'.response.status = "ok"
           /\ result'.response.prediction = "low"
           /\ result'.response.probability = 100
           /\ result'.response.completion_rate = 0
           /\ result'.response.current_streak = 0
           /\ result'.response.consistency = 0

C8_EmptyWindow == [][C8_EmptyWindowStep]_vars

\* The base case answered for a habit whose only completions are too old.
C8_Witness ==
    /\ result.op = "predict_habit_success"
    /\ result.habit_id \in Habits
    /\ result.response.status = "ok"
    /\ result.response.probability = 100
    /\ result.response.completion_rate = 0
    /\ \E r \in BagToSet(completions) : r.habit_id = result.habit_id
    /\ NoCompletionInWindow(result.habit_id, result.now_hour)

\* C9: generate_recommendation picks its template from
\* (tier, completion_rate, current_streak) alone, by the eight-row table;
\* exactly one row applies, and the title only fills the template.
C9_Rows(p, cr, sl) ==
    <<p = "high" /\ cr >= 270,
      p = "high" /\ cr < 270,
      p = "medium" /\ cr < 180,
      p = "medium" /\ cr >= 180 /\ sl < 7,
      p = "medium" /\ cr >= 180 /\ sl >= 7,
      p = "low" /\ cr < 90,
      p = "low" /\ cr >= 90 /\ sl = 0,
      p = "low" /\ cr >= 90 /\ sl > 0>>

C9_Templates ==
    <<"excellent_work", "great_progress", "good_start", "building_momentum",
      "solid_progress", "smaller_steps", "dont_give_up", "keep_working">>

C9_DecisionTable ==
    result.op = "generate_recommendation" =>
        LET rows == C9_Rows(result.prediction, result.completion_rate,
                            result.streak_length)
        IN /\ Cardinality({i \in 1..8 : rows[i]}) = 1
           /\ \A i \in 1..8 :
                  rows[i] => result.recommendation.template = C9_Templates[i]
           /\ result.recommendation.title = Title[result.habit_id]

\* Medium tier, rate 0.6, streak exactly 7: the "solid progress" row.
C9_Witness ==
    /\ result.op = "generate_recommendation"
    /\ result.prediction = "medium"
    /\ result.completion_rate = 180
    /\ result.streak_length = 7
    /\ result.recommendation.template = "solid_progress"

\* C10: every operation that reports a consistency score reports 1.0 when
\* all completions fall on one calendar date and 0.0 when there are none:
\* calculate_consistency and get_completion_stats.
C10_DegenerateConsistency ==
    /\ result.op = "calculate_consistency" =>
           /\ result.rows = <<>> => result.consistency = 0
           /\ Cardinality(Range(DatesOf(result.rows))) = 1 =>
                  result.consistency = 100
    /\ result.op = "get_completion_stats" =>
           /\ result.rows = <<>> =>
                  /\ result.response.status = "ok"
                  /\ result.response.consistency_score = 0
           /\ Cardinality(Range(DatesOf(result.rows))) = 1 =>
                  /\ result.response.status = "ok"
                  /\ result.response.consistency_score = 100

(***************************************************************************)
(* Consistency scorer properties.  For daily counts c over k days with     *)
(* S completions, the sample variance is Sum (k*c - S)^2 / (k*k*(k-1)),    *)
(* so variance / (mean + 1) = Sum (k*c - S)^2 / (k*(k-1)*(S+k)).           *)
(***************************************************************************)
ReportsConsistency == result.op \in {"calculate_consistency", "get_completion_stats"}

ResultDailyCounts == DailyCompletions(result.rows)

SquaredDeviations(c) ==
    LET k == Cardinality(DOMAIN c)
        S == SumOver(DOMAIN c, c)
    IN SumOver(DOMAIN c, [d \in DOMAIN c |-> (k * c[d] - S) * (k * c[d] - S)])

ScaledDenominator(c) ==
    LET k == Cardinality(DOMAIN c)
        S == SumOver(DOMAIN c, c)
    IN k * (k - 1) * (S + k)

\* score (in 1/100) is max(0, 1 - variance/(mean + 1)) to two decimals
IsClaimedConsistency(score, c) ==
    LET A == SquaredDeviations(c)
        B == ScaledDenominator(c)
        diff == 100 * (B - A) - score * B
    IN /\ score >= 0
       /\ A >= B => score = 0
       /\ A < B => (2 * diff <= B /\ 2 * diff >= 0 - B)
       /\ (\A d, e \in DOMAIN c : c[d] = c[e]) => score = 100

\* C11: over at least 2 distinct dates, the consistency score is
\* max(0, 1 - variance/(mean + 1)) of the per-date counts wherever it is
\* computed (calculate_consistency and get_completion_stats), so equal
\* counts on every active day score 1.0.
C11_ConsistencyFormula ==
    (ReportsConsistency /\ Cardinality(DOMAIN ResultDailyCounts) >= 2) =>
        IF result.op = "calculate_consistency"
        THEN IsClaimedConsistency(result.consistency, ResultDailyCounts)
        ELSE /\ result.response.status = "ok"
             /\ IsClaimedConsistency(result.response.consistency_score,
                                     ResultDailyCounts)

\* The part of C11 that calculate_consistency alone is responsible for.
C11_PredictionServiceOnly ==
    (result.op = "calculate_consistency"
        /\ Cardinality(DOMAIN ResultDailyCounts) >= 2) =>
        IsClaimedConsistency(result.consistency, ResultDailyCounts)

\* C12: for every completion set the consistency score returned is a
\* number in [0, 1], by calculate_consistency and by get_completion_stats.
C12_ConsistencyRange ==
    ReportsConsistency =>
        IF result.op = "calculate_consistency"
        THEN result.consistency \in 0..100
        ELSE /\ result.response.status = "ok"
             /\ result.response.consistency_score \in 0..100

\* The part of C12 that calculate_consistency alone is responsible for.
C12_PredictionServiceOnly ==
    result.op = "calculate_consistency" => result.consistency \in 0..100

(***************************************************************************)
(* Hour analysis properties.                                               *)
(***************************************************************************)
HourOps == {"get_habit_insights", "analyze_optimal_reminder_time",
            "get_optimal_reminder_time"}

IsAnalysis(response) ==
    /\ response.value = "analysis"
    /\ {"suggested_hour", "peak_completion_hour", "confidence", "day_pattern"}
           \subseteq DOMAIN response

\* C13: with fewer than 3 completions of the habit, the hour-distribution
\* analysis (get_habit_insights) and the reminder advisor report no
\* histogram, no peak hour and no suggested hour, and the endpoint renders
\* the not-enough-data message rather than an error.
C13_InsufficientData ==
    (result.op \in HourOps /\ result.habit_total < MinCompletions) =>
        /\ (result.op = "get_habit_insights"
               /\ result.response.status = "ok") =>
               /\ result.response.hour_distribution = <<>>
               /\ result.response.most_common_hour = NoHour
        /\ result.op = "analyze_optimal_reminder_time" =>
               result.response.value = "None"
        /\ (result.op = "get_optimal_reminder_time"
               /\ result.response.http = 200) =>
               result.response.body = "not_enough_data"

\* The part of C13 that the reminder advisor and its endpoint are
\* responsible for.
C13_ReminderAdvisorOnly ==
    (result.op \in HourOps \ {"get_habit_insights"}
        /\ result.habit_total < MinCompletions) =>
        /\ result.op = "analyze_optimal_reminder_time" =>
               result.response.value = "None"
        /\ (result.op = "get_optimal_reminder_time"
               /\ result.response.http = 200) =>
               result.response.body = "not_enough_data"

\* C14: analyze_optimal_reminder_time returns an analysis (suggested hour,
\* peak hour, confidence, day pattern) exactly when the habit has at least
\* 3 completions; the not-enough-data answer is given only below 3.
C14_EnoughData ==
    /\ result.op = "analyze_optimal_reminder_time" =>
           IF result.habit_total >= MinCompletions
           THEN IsAnalysis(result.response)
           ELSE result.response.value = "None"
    /\ (result.op = "get_optimal_reminder_time"
           /\ result.response.http = 200
           /\ result.response.body = "not_enough_data") =>
           result.habit_total < MinCompletions

\* C15: the suggested reminder hour is max(6, peak hour - 1), never
\* earlier than 06:00, for every analysed completion set.
C15_SuggestedHour ==
    (result.op = "analyze_optimal_reminder_time"
        /\ result.habit_total >= MinCompletions) =>
        /\ result.response.value = "analysis"
        /\ result.response.peak_completion_hour \in 0..23
        /\ result.response.suggested_hour =
               Max2(6, result.response.peak_completion_hour - 1)
        /\ result.response.suggested_hour >= 6

LowestPeakHour(rows) ==
    LET count == [h \in Range(HoursOf(rows)) |->
                     Cardinality({i \in DOMAIN rows : rows[i].hour = h})]
    IN CHOOSE h \in DOMAIN count :
           \A g \in DOMAIN count :
               count[g] < count[h] \/ (count[g] = count[h] /\ h <= g)

\* C16: a reported peak hour (most_common_hour, peak_completion_hour,
\* best_hour) is the hour with the most completions, the lowest such hour
\* on a tie, whatever the order of the records.
C16_PeakHour ==
    /\ (result.op = "get_habit_insights"
           /\ result.response.status = "ok"
           /\ result.response.most_common_hour # NoHour) =>
           result.response.most_common_hour = LowestPeakHour(result.rows)
    /\ (result.op = "analyze_optimal_reminder_time"
           /\ result.response.value = "analysis") =>
           result.response.peak_completion_hour = LowestPeakHour(result.rows)
    /\ (result.op = "get_completion_stats"
           /\ result.response.status = "ok"
           /\ result.rows # <<>>) =>
           result.response.best_hour = LowestPeakHour(result.rows)

\* Without a tie the reported most_common_hour is the hour with the most
\* completions.
C16_UniquePeak ==
    (result.op = "get_habit_insights"
        /\ result.response.status = "ok"
        /\ result.response.most_common_hour # NoHour
        /\ Cardinality(MostCommonHour(HourDistribution(result.rows))) = 1) =>
        result.response.most_common_hour = LowestPeakHour(result.rows)

\* For k hours with sum S and sum of squares Q the sample variance is
\* (k*Q - S*S) / (k*(k-1)); the claimed confidence times k*(k-1).
ClaimedConfidenceScaled(rows) ==
    LET k == Len(rows)
        S == SumOver(DOMAIN rows, HoursOf(rows))
        Q == SumOver(DOMAIN rows,
                     [i \in DOMAIN rows |-> rows[i].hour * rows[i].hour])
        D == k * (k - 1)
    IN Max2(0, Min2(ProbabilityCap * D, (10 * k + 50) * D - (k * Q - S * S)))

\* C17: with at least 3 completions the confidence is
\* min(95, total*10 + (50 - variance of the hours)) clamped to [0, 95],
\* never negative.
C17_Confidence ==
    (result.op = "analyze_optimal_reminder_time"
        /\ result.habit_total >= MinCompletions) =>
        /\ result.response.value = "analysis"
        /\ result.response.confidence * Len(result.rows) * (Len(result.rows) - 1)
               = ClaimedConfidenceScaled(result.rows)

(***************************************************************************)
(* Robustness properties.                                                  *)
(***************************************************************************)
EngineOps == {"predict_habit_success", "get_completion_stats",
              "calculate_consistency"}

\* C19: for an existing habit every engine operation returns a fully
\* defined result for every completion set, never an error value.
C19_TotalOnValidInput ==
    /\ (result.op = "predict_habit_success" /\ result.habit_id \in Habits) =>
           result.response.status = "ok"
    /\ result.op = "get_completion_stats" =>
           result.response.status = "ok"
    /\ result.op = "calculate_consistency" =>
           result.consistency \in 0..100

\* The part of C19 that PredictionService is responsible for.
C19_PredictionServiceOnly ==
    (result.op = "predict_habit_success" /\ result.habit_id \in Habits) =>
        /\ result.response.status = "ok"
        /\ result.response.prediction \in {"high", "medium", "low"}

WindowOps == {"get_completion_stats", "get_recent_completions",
              "get_completion_stats_endpoint"}

\* C20: a request with a zero or negative number of window days is
\* rejected with a validation error and is never answered with a
\* (degenerate) successful result.
C20_MalformedRejected ==
    (result.op \in WindowOps /\ result.days < 1) =>
        IF result.op = "get_completion_stats_endpoint"
        THEN result.response.http \in {400, 404}
        ELSE result.response.status = "validation_error"

\* The part of C20 that the endpoint is responsible for.
C20_EndpointOnly ==
    (result.op = "get_completion_stats_endpoint"
        /\ (result.days < 1 \/ result.days > MaxWindowDays)) =>
        result.response.http \in {400, 404}

(***************************************************************************)
(* Scope properties.                                                       *)
(***************************************************************************)
\* The table without the rows completed more than days full days ago.
NotOlderThan(table, days, now_date) ==
    SelectRows(table, {r \in BagToSet(table) : now_date - r.date <= days})

\* The widest window the step that produced the result could have used.
WindowDaysOf(r) ==
    IF r.op = "get_completion_stats" THEN r.days
    ELSE IF r.op = "analyze_optimal_reminder_time" THEN MaxWindowDays
    ELSE PredictionWindowDays

LoadsOnlyWindow(r) ==
    \A i \in DOMAIN r.rows :
        /\ r.rows[i].habit_id = r.habit_id
        /\ today - r.rows[i].date <= WindowDaysOf(r)

C21_WindowStep ==
    /\ PredictHabitSuccess =>
           result'.response =
               predict_habit_success(
                   NotOlderThan(completions, PredictionWindowDays, today),
                   result'.habit_id, today, result'.now_hour)
    /\ (GetHabitInsights \/ AnalyzeOptimalReminderTime
           \/ GetCompletionStatsDays) =>
           LoadsOnlyWindow(result')

\* C21: every analysis loads only completions of the requested habit that
\* lie within its window, so a completion older than the window changes
\* neither the prediction nor the rows the statistics, the hour histogram
\* and the reminder analysis are computed from.
C21_WindowOnly == [][C21_WindowStep]_vars

\* The part of C21 that the windowed queries are responsible for.
C21_WindowedQueriesStep ==
    /\ PredictHabitSuccess =>
           result'.response =
               predict_habit_success(
                   NotOlderThan(completions, PredictionWindowDays, today),
                   result'.habit_id, today, result'.now_hour)
    /\ (GetHabitInsights \/ GetCompletionStatsDays) => LoadsOnlyWindow(result')

C21_WindowedQueries == [][C21_WindowedQueriesStep]_vars

(***************************************************************************)
(* Concurrency properties.                                                 *)
(***************************************************************************)
\* What the request of task t returns when nothing else runs.
RunAlone(task) ==
    get_habit_insights(completions, task.habit_id, today, task.now_hour,
                       IF task.response.status = "ok"
                       THEN task.response.most_common_hour ELSE NoHour)

C22_Step ==
    /\ completions' = completions
    /\ \A t, u \in Tasks :
           (result'.tasks[t] # result.tasks[t]
               /\ result'.tasks[u] # result.tasks[u]) => t = u
    /\ \A t \in Tasks :
           result'.tasks[t].pc = "done" =>
               result'.tasks[t].response = RunAlone(result'.tasks[t])

RecordsOf(habit_id) ==
    LET own == SelectRows(completions,
                   {r \in BagToSet(completions) : r.habit_id = habit_id})
    IN [k \in {[date |-> r.date, hour |-> r.hour] : r \in BagToSet(own)} |->
           own[[habit_id |-> habit_id, date |-> k.date, hour |-> k.hour]]]

\* Another habit whose title or goal type differs but whose completion
\* records are the same.
Twins(habit_id) ==
    {other \in Habits \ {habit_id} :
        /\ habit_id \in Habits
        /\ RecordsOf(other) = RecordsOf(habit_id)
        /\ (Title[other] # Title[habit_id]
               \/ GoalType[other] # GoalType[habit_id])}

PredictionAnalytics(response) ==
    [response EXCEPT !.recommendation = "text"]

InsightsAnalytics(response) ==
    [response EXCEPT !.habit_title = "text"]

EntryAnalytics(entry) ==
    [type |-> entry.type, priority |-> entry.priority,
     probability |-> IF entry.type = "success_prediction"
                     THEN entry.probability ELSE 0]

RecommendationAnalytics(response) ==
    {EntryAnalytics(response.recommendations[i]) :
        i \in {j \in DOMAIN response.recommendations :
                  response.recommendations[j].type # "goal_adjustment"}}

\* A step that is a call of op: calls leave the table alone and store
\* their answer, computed from the current table, in result.
IsCall(op) ==
    /\ completions' = completions
    /\ today' = today
    /\ habits_db' = habits_db
    /\ result'.op = op

C23_Step ==
    /\ IsCall("predict_habit_success") =>
           \A other \in Twins(result'.habit_id) :
               PredictionAnalytics(result'.response) =
                   PredictionAnalytics(
                       predict_habit_success(completions, other, today,
                                             result'.now_hour))
    /\ IsCall("get_habit_insights") =>
           \A other \in Twins(result'.habit_id) :
               InsightsAnalytics(result'.response) =
                   InsightsAnalytics(
                       get_habit_insights(completions, other, today,
                           result'.now_hour,
                           result'.response.most_common_hour))
    /\ (IsCall("get_habit_recommendations")
           /\ result'.response.http = 200) =>
           \A other \in Twins(result'.habit_id) :
               RecommendationAnalytics(result'.response) =
                   RecommendationAnalytics(
                       get_habit_recommendations(completions, Owner[other],
                           other, today, result'.now_hour))

\* C23: two habits with the same completion records that differ in title
\* or goal type get the same tier, probability, factors, streak,
\* consistency, hour histogram and peak hour; only recommendation text and
\* the displayed title differ.
C23_TitleAndGoalBlind == [][C23_Step]_vars

\* The recommendations of a duration habit were returned while a count
\* habit with another title holds the same completions.
C23_Witness ==
    /\ result.op = "get_habit_recommendations"
    /\ result.response.http = 200
    /\ result.response.total_recommendations = 2
    /\ GoalType[result.habit_id] = "duration"
    /\ RecordsOf(result.habit_id) # <<>>
    /\ Twins(result.habit_id) # {}

(***************************************************************************)
(* Habit store properties.                                                 *)
(***************************************************************************)
\* C24: every habit in the store has a goal_type of check, count or
\* duration, and a create_habit with another goal_type is answered 400 and
\* leaves the store unchanged, in every backend that has POST /habits.
C24_GoalTypeInvariant ==
    \A i \in DOMAIN habits_db : habits_db[i].goal_type \in GoalTypes

\* The part of C24 that main.py and simple_backend.py are responsible for:
\* a create_habit answered 400 leaves the store as it was.
C24_RejectedStep ==
    (result'.op = "create_habit" /\ calls' # calls
        /\ result'.response.http = 400) => habits_db' = habits_db

C24_ValidatedBackends == [][C24_RejectedStep]_vars

(***************************************************************************)
(* Endpoint properties.                                                    *)
(***************************************************************************)
EndpointOps ==
    {"predict_habit_success_endpoint", "get_optimal_reminder_time",
     "get_completion_stats_endpoint", "get_habit_insights_endpoint",
     "get_habit_recommendations"}

NotOwnHabit(user, habit_id) ==
    habit_id \notin Habits \/ Owner[habit_id] # user

\* C25: on each of the five insights endpoints a habit id that does not
\* exist or belongs to another user is answered 404 "Habit not found",
\* never 500 and never with analytics.
C25_NotFound ==
    (result.op \in EndpointOps
        /\ NotOwnHabit(result.current_user, result.habit_id)) =>
        result.response = [http |-> 404, detail |-> "Habit not found"]

\* Another user's habit, which has completions that make the statistics
\* fail for its owner, was asked for and answered 404.
C25_Witness ==
    /\ result.op = "get_completion_stats_endpoint"
    /\ result.habit_id \in Habits
    /\ Owner[result.habit_id] # result.current_user
    /\ HabitTotal(completions, result.habit_id) > 0
    /\ result.response.http = 404

\* The requests on habit_id that found it, in the order served.
ServedOn(habit_id) ==
    {k \in DOMAIN calls : calls[k].habit_id = habit_id /\ calls[k].http = 200}

CheckinsAfter(habit_id, k) ==
    Cardinality({j \in ServedOn(habit_id) :
                    j > k /\ calls[j].op = "checkin_habit"})

MissesOn(habit_id) ==
    {k \in ServedOn(habit_id) : calls[k].op = "miss_habit"}

InitialStreak(habit_id) ==
    IF \E i \in DOMAIN DemoHabits : DemoHabits[i].id = habit_id
    THEN DemoHabits[CHOOSE i \in DOMAIN DemoHabits :
                        DemoHabits[i].id = habit_id].current_streak_length
    ELSE 0

ExpectedStreak(habit_id) ==
    IF MissesOn(habit_id) = {}
    THEN InitialStreak(habit_id) + CheckinsAfter(habit_id, 0)
    ELSE CheckinsAfter(habit_id, SetMax(MissesOn(habit_id)))

\* C26: a habit's current_streak_length is its initial value plus its
\* check-ins if it was never missed, else its check-ins since the last
\* miss; it is never negative; a check-in returns the incremented streak,
\* a miss returns 0, and is_due_today is false after either.
C26_StreakCounter ==
    /\ \A i \in DOMAIN habits_db :
           /\ habits_db[i].current_streak_length
                  = ExpectedStreak(habits_db[i].id)
           /\ habits_db[i].current_streak_length >= 0
    /\ (result.op \in {"checkin_habit", "miss_habit"}
           /\ result.response.http = 200) =>
           LET habit == habits_db[FindHabit(habits_db, result.habit_id)]
           IN /\ habit.is_due_today = FALSE
              /\ result.response.streak = habit.current_streak_length
              /\ result.op = "checkin_habit" => result.response.streak >= 1
              /\ result.op = "miss_habit" => result.response.streak = 0

\* A habit was checked in after having been missed.
C26_Witness ==
    /\ result.op = "checkin_habit"
    /\ result.response.http = 200
    /\ MissesOn(result.habit_id) # {}
    /\ result.response.streak = 2

IsServed(ops) ==
    /\ calls' # calls
    /\ result'.op \in ops
    /\ result'.response.http = 200

C27_Step ==
    /\ IsServed({"checkin_habit", "miss_habit"}) =>
           /\ Len(habits_db') = Len(habits_db)
           /\ \A i \in DOMAIN habits_db :
                  IF habits_db[i].id = result'.habit_id
                  THEN [habits_db'[i] EXCEPT
                           !.current_streak_length =
                               habits_db[i].current_streak_length,
                           !.is_due_today = habits_db[i].is_due_today]
                       = habits_db[i]
                  ELSE habits_db'[i] = habits_db[i]
    /\ IsServed({"create_habit"}) =>
           /\ Len(habits_db') = Len(habits_db) + 1
           /\ SubSeq(habits_db', 1, Len(habits_db)) = habits_db
           /\ habits_db'[Len(habits_db')].current_streak_length = 0
           /\ habits_db'[Len(habits_db')].is_due_today = TRUE
           /\ habits_db'[Len(habits_db')].best_hour = NoBestHour
           /\ result'.response.habit = habits_db'[Len(habits_db')]

\* C27: a check-in or miss changes only current_streak_length and
\* is_due_today of its habit and no other habit; create_habit appends one
\* habit with streak 0, due today, no best hour, and changes no other.
C27_Frame == [][C27_Step]_vars

\* A habit was created in a store whose first habit had been checked in,
\* and was then checked in itself.
C27_Witness ==
    /\ result.op = "checkin_habit"
    /\ result.response.http = 200
    /\ result.habit_id = UuidPool[1]
    /\ Len(habits_db) = Len(DemoHabits) + 1
    /\ habits_db[1].current_streak_length = DemoHabits[1].current_streak_length + 1
    /\ habits_db[2] = DemoHabits[2]

C28_Step ==
    (/\ calls' # calls
     /\ result'.op \in {"checkin_habit", "miss_habit"}
     /\ \A i \in DOMAIN habits_db : habits_db[i].id # result'.habit_id) =>
        /\ result'.response = [http |-> 404, detail |-> "Habit not found"]
        /\ habits_db' = habits_db

\* C28: a check-in or miss for an id that is not in the store is answered
\* 404 "Habit not found" and leaves the store unchanged.
C28_UnknownHabit == [][C28_Step]_vars

\* A miss for an unknown id was refused by a store that had changed since
\* start-up.
C28_Witness ==
    /\ result.op = "miss_habit"
    /\ result.response.http = 404
    /\ \A i \in DOMAIN habits_db : habits_db[i].id # result.habit_id
    /\ habits_db # DemoHabits

(***************************************************************************)
(* Agreement of the two implementations of each calculation.               *)
(***************************************************************************)
\* C29: on every list of completions and every reference date
\* calculate_current_streak returns the current streak that
\* _calculate_streaks returns for the same dates.
C29_StreaksAgree ==
    /\ result.op = "calculate_current_streak" =>
           result.current =
               _calculate_streaks(DatesOf(result.rows), result.today).current
    /\ result.op = "_calculate_streaks" =>
           result.current =
               calculate_current_streak(result.rows, result.today)

\* A streak of two days was computed from three completions, one of them
\* off the streak or on a day already counted.
C29_Witness ==
    /\ result.op = "calculate_current_streak"
    /\ Len(result.rows) = 3
    /\ result.current = 2

\* C30: without a loaded model, or when the model raises, predict returns
\* the rule-based result: model_used is rule_based, tier and probability
\* are those of _calculate_prediction for the same inputs, and
\* will_succeed holds exactly for the tiers medium and high.
C30_RuleBasedFallback ==
    (result.op = "predict" /\ (result.model = "None" \/ result.raises)) =>
        LET scored == _calculate_prediction(result.completion_rate,
                          result.streak_length, result.consistency)
        IN /\ result.response.model_used = "rule_based"
           /\ result.response.prediction = scored.prediction
           /\ result.response.probability = scored.probability
           /\ result.response.will_succeed
                  <=> result.response.prediction \in {"medium", "high"}

\* A loaded model raised on inputs that score exactly 50: the fallback
\* answered medium and will succeed.
C30_Witness ==
    /\ result.op = "predict"
    /\ result.model = "loaded"
    /\ result.raises
    /\ result.response.model_used = "rule_based"
    /\ result.response.probability = MediumThreshold * 60
    /\ result.response.will_succeed

====
